---- MODULE Spec2Model ----
(***************************************************************************)
(* Torus Games DPAK/MUSC -> XM ripper.                                     *)
(*   HelperFunctions.py : DPAKExtract, checkForByteString, DPAKMUSCExtract *)
(*   XMLib.py           : ExtendedModuleWriter                             *)
(*   TorusRipper.py     : the file / song / pattern / sample loops         *)
(* Files are sequences of bytes (0..255); a read cursor is a 0-based       *)
(* position, as Python's file objects keep it.                             *)
(***************************************************************************)
EXTENDS Integers, Sequences, FiniteSets, TLC

VARIABLES
    \* ---- ExtendedModuleWriter._pack_sample_data, called on one XMSample
    sample,      \* the XMSample handed in: [pcm, is_16bit]
    packed,      \* the call's outcome: [raised, out, prevs]
    pkpc,        \* "call" before _pack_sample_data runs, "returned" after
    \* ---- ExtendedModuleWriter public API
    xm,          \* the writer object: num_channels, song_length, order, patterns, instruments
    call,        \* the last API call made: [op, arg, raised]
    \* ---- DPAKMUSCExtract(file, outPath) on one ROM image
    rom,         \* the bytes of the file
    dpakpc,      \* "check", "extract", "select", "returned", "raised"
    DPAKCheck,   \* checkForByteString's result: [found, offset]
    extracted,   \* DPAKExtract's result
    MUSC,        \* DPAKMUSCExtract's result: [found, bin], bin = the bytes of music.bin
    \* ---- TorusRipper.py (module-level variables: they outlive a song and a file)
    files,       \* the files the user selected: the bytes of each
    fileIdx,     \* 1-based index of `file` in files
    rpc,         \* where the script is: "file", "song", "pattern", "sample", "save", "done", "crashed"
    mus,         \* the bytes of the open music.bin
    pos,         \* mus.tell()
    songTableOffset,
    sampleTableOffset,
    songCount,
    song,
    orderTable,
    usedSamples, \* kept as a set: the script only tests membership
    currentMaxPatternNumber,
    sampleID,
    songOffset,
    nextSong,
    patternCount,
    channelCount,
    startRelativeToSongOffset,   \* Unbound until first assigned
    patternID,
    saved        \* the .xm files written so far, in order

packVars == <<sample, packed, pkpc>>
writerVars == <<xm, call>>
dpakVars == <<rom, dpakpc, DPAKCheck, extracted, MUSC>>
fileVars == <<mus, songTableOffset, sampleTableOffset, songCount>>
songVars == <<orderTable, usedSamples, currentMaxPatternNumber, sampleID, songOffset,
              nextSong, patternCount, channelCount, startRelativeToSongOffset, patternID>>
ripVars == <<files, fileIdx, rpc, pos, song, saved, fileVars, songVars>>
vars == <<sample, packed, pkpc, xm, call, rom, dpakpc, DPAKCheck, extracted, MUSC, ripVars>>

Min(a, b) == IF a < b THEN a ELSE b
Max(a, b) == IF a > b THEN a ELSE b

(***************************************************************************)
(* struct.pack: a value outside the field's range raises struct.error.     *)
(***************************************************************************)
FitsInt8(v) == v >= -128 /\ v <= 127
FitsInt16(v) == v >= -32768 /\ v <= 32767
FitsUInt8(v) == v >= 0 /\ v <= 255
FitsUInt16(v) == v >= 0 /\ v <= 65535

\* struct.pack("<b", v) and struct.pack("<h", v) for a value in range:
\* two's complement, little-endian
PackInt8(v) == << v % 256 >>
PackInt16(v) == << (v % 65536) % 256, (v % 65536) \div 256 >>

\* struct.unpack("<b", ...) and struct.unpack("<h", ...): the signed reading
UnpackInt8(b) == IF b >= 128 THEN b - 256 ELSE b
UnpackInt16(lo, hi) == IF lo + 256 * hi >= 32768 THEN lo + 256 * hi - 65536 ELSE lo + 256 * hi

(***************************************************************************)
(* ExtendedModuleWriter._pack_sample_data (XMLib.py 354-378).              *)
(* The result carries the bytes written and, as history, the value of      *)
(* `prev` after each iteration; raised = struct.error left the function.   *)
(***************************************************************************)
\* line 375: delta = max(-128, min(delta, 127))
Clamp8(delta) == Max(-128, Min(delta, 127))

\* a writer that tracks the true sample value instead of the clamped sum
NextPrev8_TrueValue(prev, delta, val) == val

\* line 377: prev = prev + delta (the clamped delta)
NextPrev8(prev, delta, val) == prev + delta

\* line 366: prev = val
NextPrev16(prev, delta, val) == val

\* lines 360-366: one iteration of the 16-bit loop
PackStep16(val, prev) ==
    LET delta == val - prev
    IN  IF ~FitsInt16(delta)
        THEN [raised |-> TRUE, out |-> << >>, prevs |-> << >>]
        ELSE [raised |-> FALSE, out |-> PackInt16(delta),
              prevs |-> << NextPrev16(prev, delta, val) >>]

\* lines 372-377: one iteration of the 8-bit loop
PackStep8(val, prev) ==
    LET delta == Clamp8(val - prev)
    IN  IF ~FitsInt8(delta)
        THEN [raised |-> TRUE, out |-> << >>, prevs |-> << >>]
        ELSE [raised |-> FALSE, out |-> PackInt8(delta),
              prevs |-> << NextPrev8(prev, delta, val) >>]

\* the value of prev a loop leaves behind
LastPrev(r, prev) == IF r.prevs = << >> THEN prev ELSE r.prevs[Len(r.prevs)]

\* one loop after another: the second starts from the prev the first left,
\* and does not run if the first raised
PackThen(left, right) ==
    IF left.raised THEN left
    ELSE [raised |-> right.raised, out |-> left.out \o right.out,
          prevs |-> left.prevs \o right.prevs]

\* `for val in s.pcm` entered with prev: the iterations over the first half
\* of pcm, then those over the rest
RECURSIVE PackLoop16(_, _)
PackLoop16(pcm, prev) ==
    IF pcm = << >> THEN [raised |-> FALSE, out |-> << >>, prevs |-> << >>]
    ELSE IF Len(pcm) = 1 THEN PackStep16(pcm[1], prev)
    ELSE LET half == Len(pcm) \div 2
             left == PackLoop16(SubSeq(pcm, 1, half), prev)
         IN  PackThen(left, PackLoop16(SubSeq(pcm, half + 1, Len(pcm)), LastPrev(left, prev)))

RECURSIVE PackLoop8(_, _)
PackLoop8(pcm, prev) ==
    IF pcm = << >> THEN [raised |-> FALSE, out |-> << >>, prevs |-> << >>]
    ELSE IF Len(pcm) = 1 THEN PackStep8(pcm[1], prev)
    ELSE LET half == Len(pcm) \div 2
             left == PackLoop8(SubSeq(pcm, 1, half), prev)
         IN  PackThen(left, PackLoop8(SubSeq(pcm, half + 1, Len(pcm)), LastPrev(left, prev)))

PackSampleData(s) ==
    IF s.is_16bit THEN PackLoop16(s.pcm, 0) ELSE PackLoop8(s.pcm, 0)

(***************************************************************************)
(* XMLib.py objects.  Names (strings) are left out: no claim reads them.   *)
(***************************************************************************)
\* XMNote.__init__ (XMLib.py 15-20)
XMNote(note, instrument, volume, effect_type, effect_param) ==
    [note |-> note, instrument |-> instrument, volume |-> volume,
     effect_type |-> effect_type, effect_param |-> effect_param]

\* XMSample.__init__ (XMLib.py 44-66)
XMSample(kind, pcm, is_16bit, volume, fine_tune, panning, relative_note, loop_type, loop_start, loop_length) ==
    [kind |-> kind, pcm |-> pcm, is_16bit |-> is_16bit, volume |-> volume,
     fine_tune |-> fine_tune, panning |-> panning, relative_note |-> relative_note,
     loop_type |-> loop_type, loop_start |-> loop_start, loop_length |-> loop_length]

\* XMSample() with every default
DefaultSample == XMSample("DEFAULT", << >>, FALSE, 64, 0, 128, 0, 0, 0, 0)

\* XMInstrument.__init__ (XMLib.py 86-114): the envelope and vibrato fields
\* all start at 0 and no code of the repository changes them
XMInstrument(id) == [id |-> id, samples |-> << >>]

\* XMPattern.__init__ (XMLib.py 118-120)
XMPattern(num_rows, num_channels) ==
    [num_rows |-> num_rows,
     rows |-> [r \in 1..num_rows |-> [c \in 1..num_channels |-> XMNote(0, 0, 0, 0, 0)]]]

\* the order table always has 256 entries (XMLib.py 153)
OrderTableSize == 256
\* set_order's limit (XMLib.py 160)
MaxOrderLength == 256
\* add_pattern's limit (XMLib.py 169)
MaxPatternRows == 256
\* add_instrument's limit (XMLib.py 176)
MaxInstrumentSamples == 128

\* ExtendedModuleWriter.__init__ (XMLib.py 131-155)
ExtendedModuleWriter(num_channels) ==
    [num_channels |-> num_channels, default_tempo |-> 6, default_bpm |-> 125,
     linear_freq_table |-> TRUE, song_length |-> 1, restart_position |-> 0,
     order |-> [i \in 1..OrderTableSize |-> 0],
     patterns |-> << >>, instruments |-> << >>]

(***************************************************************************)
(* The public API: each operator gives [raised, xm], raised = ValueError,  *)
(* xm = the writer after the call.                                         *)
(***************************************************************************)
\* no API call made yet
NoCall == [op |-> "none", arg |-> << >>, raised |-> FALSE]

\* a set_order whose limit is off by one
OrderTooLong_OffByOne(order) == Len(order) >= MaxOrderLength

\* XMLib.py 160
OrderTooLong(order) == Len(order) > MaxOrderLength

\* XMLib.py 159-166
SetOrder(w, order) ==
    IF OrderTooLong(order) THEN [raised |-> TRUE, xm |-> w]
    ELSE [raised |-> FALSE,
          xm |-> [w EXCEPT !.song_length = Len(order),
                           !.order = [i \in 1..OrderTableSize |->
                                         IF i <= Len(order) THEN order[i] ELSE 0]]]

\* XMLib.py 168-173
AddPattern(w, pattern) ==
    IF pattern.num_rows < 1 \/ pattern.num_rows > MaxPatternRows
    THEN [raised |-> TRUE, xm |-> w]
    ELSE IF \E r \in 1..Len(pattern.rows) : Len(pattern.rows[r]) # w.num_channels
    THEN [raised |-> TRUE, xm |-> w]
    ELSE [raised |-> FALSE, xm |-> [w EXCEPT !.patterns = Append(@, pattern)]]

\* XMLib.py 175-178
AddInstrument(w, inst) ==
    IF Len(inst.samples) > MaxInstrumentSamples THEN [raised |-> TRUE, xm |-> w]
    ELSE [raised |-> FALSE, xm |-> [w EXCEPT !.instruments = Append(@, inst)]]

(***************************************************************************)
(* Python file objects and struct.unpack.                                  *)
(***************************************************************************)
\* f.read(n) with the cursor at `at`: the bytes there are, at most n; a cursor
\* at or past the end reads nothing
ReadBytes(data, at, n) == SubSeq(data, at + 1, Min(at + n, Len(data)))

\* struct.unpack("<H", b)[0], struct.unpack("<I", b)[0] and int.from_bytes(b,
\* 'little') of a byte string of the right length.  The model's files keep the
\* top byte of a 32-bit field below 128.
RECURSIVE LittleEndian(_)
LittleEndian(b) == IF b = << >> THEN 0 ELSE Head(b) + 256 * LittleEndian(Tail(b))

\* struct.pack("<III", a, b, c)
PackUInt32(v) == << v % 256, (v \div 256) % 256, (v \div 65536) % 256, (v \div 16777216) % 256 >>

(***************************************************************************)
(* HelperFunctions.py                                                      *)
(***************************************************************************)
\* a loop that does not seek back after reading the payload
CursorAfterEntry_NotRestored(currentOffset, afterPayload) == afterPayload

\* line 63: rom.seek(currentOffset)
CursorAfterEntry(currentOffset, afterPayload) == currentOffset

\* lines 51-63: the directory loop from entry number `entry` (0-based) on, the
\* cursor at cur.  acc = [files, chunks, headerPostTorus, dataChunks, reads];
\* reads is history: the cursor position each directory entry was read at.
RECURSIVE DPAKLoop(_, _, _, _, _, _)
DPAKLoop(data, offset, entry, count, cur, acc) ==
    IF entry >= count THEN [acc EXCEPT !.raised = FALSE]
    ELSE
    LET b1 == ReadBytes(data, cur, 4)
        p1 == cur + Len(b1)
        b2 == ReadBytes(data, p1, 4)
        p2 == p1 + Len(b2)
        b3 == ReadBytes(data, p2, 4)
        p3 == p2 + Len(b3)
        nothing == ReadBytes(data, p3, 4)
        currentOffset == p3 + Len(nothing)
    IN  IF Len(b1) # 4 \/ Len(b2) # 4 \/ Len(b3) # 4
        THEN [acc EXCEPT !.raised = TRUE]
        ELSE
        LET chunkType == LittleEndian(b1)
            dataOffset == LittleEndian(b2) + offset
            dataSize == LittleEndian(b3)
            chunk == ReadBytes(data, dataOffset, dataSize)
        IN  DPAKLoop(data, offset, entry + 1, count,
                     CursorAfterEntry(currentOffset, dataOffset + Len(chunk)),
                     [acc EXCEPT
                        !.headerPostTorus = @ \o PackUInt32(chunkType)
                                              \o PackUInt32(dataOffset - offset)
                                              \o PackUInt32(dataSize) \o nothing,
                        !.dataChunks = @ \o chunk,
                        !.files = Append(@, chunk),
                        !.chunks = Append(@, chunkType),
                        !.reads = Append(@, cur)])

NotExtracted ==
    [raised |-> FALSE, files |-> << >>, chunks |-> << >>, headerPostTorus |-> << >>,
     dataChunks |-> << >>, reads |-> << >>, completeDPAK |-> << >>]

\* lines 39-68
DPAKExtract(data, offset) ==
    LET identifier == ReadBytes(data, offset, 4)
        p1 == offset + Len(identifier)
        entries == ReadBytes(data, p1, 2)
        p2 == p1 + Len(entries)
        torus == ReadBytes(data, p2, 10)
        p3 == p2 + Len(torus)
    IN  IF Len(entries) # 2 THEN [NotExtracted EXCEPT !.raised = TRUE]
        ELSE LET r == DPAKLoop(data, offset, 0, LittleEndian(entries), p3, NotExtracted)
             IN  IF r.raised THEN r
                 ELSE [r EXCEPT !.completeDPAK =
                          identifier \o entries \o torus \o r.headerPostTorus \o r.dataChunks]

DPAKSignature == <<68, 80, 65, 75>>   \* b'DPAK'
MUSCSignature == <<77, 85, 83, 67>>   \* b'MUSC'

\* content.find(string): the first offset string occurs at, -1 if none
FindBytes(content, string) ==
    LET hits == {i \in 0..(Len(content) - Len(string)) :
                    SubSeq(content, i + 1, i + Len(string)) = string}
    IN  IF hits = {} THEN -1 ELSE CHOOSE i \in hits : \A j \in hits : i <= j

\* lines 70-74
checkForByteString(content, string) ==
    [found |-> FindBytes(content, string) >= 0, offset |-> FindBytes(content, string)]

\* file.startswith(b'MUSC')
StartsWith(file, string) ==
    Len(file) >= Len(string) /\ SubSeq(file, 1, Len(string)) = string

\* lines 81-89: the first chunk that starts with MUSC is written to music.bin
RECURSIVE SelectMUSC(_)
SelectMUSC(chunkList) ==
    IF chunkList = << >> THEN [found |-> FALSE, bin |-> << >>]
    ELSE IF StartsWith(Head(chunkList), MUSCSignature) THEN [found |-> TRUE, bin |-> Head(chunkList)]
    ELSE SelectMUSC(Tail(chunkList))

\* lines 76-93, for callers: [raised, found, bin]
DPAKMUSCExtract(content) ==
    LET check == checkForByteString(content, DPAKSignature)
    IN  IF ~check.found THEN [raised |-> FALSE, found |-> FALSE, bin |-> << >>]
        ELSE LET r == DPAKExtract(content, check.offset)
             IN  IF r.raised THEN [raised |-> TRUE, found |-> FALSE, bin |-> << >>]
                 ELSE [raised |-> FALSE, found |-> SelectMUSC(r.files).found,
                       bin |-> SelectMUSC(r.files).bin]

(***************************************************************************)
(* ExtendedModuleWriter.save (XMLib.py 180-186): the file is opened, then   *)
(* the header, each pattern and each instrument are packed and written in  *)
(* turn; a struct.error or ValueError of a pack leaves the file with what  *)
(* was written before it.                                                  *)
(***************************************************************************)
\* _pack_preheader_and_header (XMLib.py 208-220)
HeaderFits(w) ==
    /\ FitsUInt16(w.song_length) /\ FitsUInt16(w.restart_position)
    /\ FitsUInt16(w.num_channels) /\ FitsUInt16(Len(w.patterns))
    /\ FitsUInt16(Len(w.instruments))
    /\ FitsUInt16(w.default_tempo) /\ FitsUInt16(w.default_bpm)
    /\ \A i \in 1..Len(w.order) : FitsUInt8(w.order[i])

\* _pack_pattern (XMLib.py 224-249): five bytes per cell, then "<BHH"
PatternFits(w, pat) ==
    /\ \A r \in 1..pat.num_rows : \A c \in 1..w.num_channels :
          /\ FitsUInt8(pat.rows[r][c].note) /\ FitsUInt8(pat.rows[r][c].instrument)
          /\ FitsUInt8(pat.rows[r][c].volume) /\ FitsUInt8(pat.rows[r][c].effect_type)
          /\ FitsUInt8(pat.rows[r][c].effect_param)
    /\ FitsUInt16(pat.num_rows)
    /\ FitsUInt16(pat.num_rows * w.num_channels * 5)

\* _pack_sample_header (XMLib.py 333-352): "<IIIbB B B b B 22s"
SampleHeaderFits(s) ==
    /\ s.loop_start >= 0 /\ s.loop_length >= 0
    /\ FitsInt8(s.volume) /\ FitsUInt8(s.fine_tune)
    /\ FitsUInt8(s.panning) /\ FitsInt8(s.relative_note)

\* _pack_instrument (XMLib.py 251-331)
InstrumentFits(inst) ==
    /\ FitsUInt16(Len(inst.samples))
    /\ \A i \in 1..Len(inst.samples) : SampleHeaderFits(inst.samples[i])
    /\ \A i \in 1..Len(inst.samples) : ~PackSampleData(inst.samples[i]).raised

\* how many leading patterns / instruments are packed before one fails
FirstFailure(bad, n) == IF bad = {} THEN n ELSE (CHOOSE i \in bad : \A j \in bad : i <= j) - 1

PatternsPacked(w) ==
    FirstFailure({i \in 1..Len(w.patterns) : ~PatternFits(w, w.patterns[i])}, Len(w.patterns))

InstrumentsPacked(w) ==
    FirstFailure({i \in 1..Len(w.instruments) : ~InstrumentFits(w.instruments[i])},
                 Len(w.instruments))

\* save: [raised, header, patterns, instruments] = whether it raised, whether
\* the header was written, and how many patterns and instruments were
Save(w) ==
    LET np == IF HeaderFits(w) THEN PatternsPacked(w) ELSE 0
        ni == IF HeaderFits(w) /\ np = Len(w.patterns) THEN InstrumentsPacked(w) ELSE 0
    IN  [raised |-> ~(HeaderFits(w) /\ np = Len(w.patterns) /\ ni = Len(w.instruments)),
         header |-> HeaderFits(w), patterns |-> np, instruments |-> ni]

(***************************************************************************)
(* TorusRipper.py                                                          *)
(***************************************************************************)
\* line 13
rowCount == 64
\* line 35: silence = [0] * 100
SilenceLength == 100
\* line 145: if sampleID >= 256: break
SampleIDLimit == 256
\* line 96: the 24-bit offset is taken relative to the cursor, minus 0x1000000
SampleOffsetBias == 16777216

\* a name no assignment has bound yet: reading it raises NameError
Unbound == -1

\* line 117: pcm = [struct.unpack("b", bytes([x]))[0] for x in sampleData]
SignedPCM(bytes) == [i \in 1..Len(bytes) |-> UnpackInt8(bytes[i])]

\* an order loop that also refuses an index equal to patternCount
IndexRejected_AlsoEqual(patternIndex, count) == patternIndex >= count

\* line 61: if patternIndex > patternCount
IndexRejected(patternIndex, count) == patternIndex > count

\* lines 56-63: the order loop with `remaining` entries to go and the cursor
\* at cur.  st = [orderTable, currentMaxPatternNumber,
\* startRelativeToSongOffset, raised, cur]; raised = IndexError of read(1)[0]
RECURSIVE OrderLoop(_, _, _, _, _)
OrderLoop(data, cur, remaining, count, st) ==
    IF remaining <= 0 THEN [st EXCEPT !.cur = cur]
    ELSE
    LET b1 == ReadBytes(data, cur, 1)
        b2 == ReadBytes(data, cur + Len(b1), 1)
    IN  IF Len(b1) = 0 \/ Len(b2) = 0 THEN [st EXCEPT !.raised = TRUE]
        ELSE
        LET patternIndex == b2[1] \div 8
            st1 == [st EXCEPT
                      !.startRelativeToSongOffset = b1[1],
                      !.currentMaxPatternNumber =
                          IF patternIndex > @ THEN patternIndex ELSE @]
        IN  IF IndexRejected(patternIndex, count)
            THEN [st1 EXCEPT !.cur = cur + 2]
            ELSE OrderLoop(data, cur + 2, remaining - 1, count,
                           [st1 EXCEPT !.orderTable = Append(@, patternIndex)])

\* line 72: effect, sample, note, effectParameter = mus.read(4) raises
\* ValueError unless it gets 4 bytes; cell k (0-based) of a pattern at cur
CellBytes(data, cur, k) == ReadBytes(data, cur + 4 * k, 4)
PatternReadFails(data, cur, cells) ==
    \E k \in 0..(cells - 1) : Len(CellBytes(data, cur, k)) # 4

\* lines 77-83: both branches build the same note (note is 0 in the second)
CellNote(b) == XMNote(b[3], b[2], 0, b[1] \div 16, b[4])

\* lines 68-83: the pattern read at cur
ReadPattern(data, cur, channels) ==
    [num_rows |-> rowCount,
     rows |-> [r \in 1..rowCount |-> [c \in 1..channels |->
                 CellNote(CellBytes(data, cur, (r - 1) * channels + (c - 1)))]]]

\* lines 74-75: the sample bytes of the cells of a pattern read at cur
CellSamples(data, cur, cells) == {CellBytes(data, cur, k)[2] : k \in 0..(cells - 1)}

\* line 109: if sampleID+1 in usedSamples and sampleLength > 0
SampleIsUsed(id, used, length) == (id + 1) \in used /\ length > 0

\* line 145
SampleLimitReached(id) == id >= SampleIDLimit

(***************************************************************************)
(* Values of the variables a specification does not use.                   *)
(***************************************************************************)
NotPacked == [raised |-> FALSE, out |-> << >>, prevs |-> << >>]

IdlePack ==
    /\ sample = [pcm |-> << >>, is_16bit |-> FALSE]
    /\ packed = NotPacked
    /\ pkpc = "idle"

IdleWriter ==
    /\ xm = ExtendedModuleWriter(0)
    /\ call = NoCall

IdleSong ==
    /\ orderTable = << >>
    /\ usedSamples = {}
    /\ currentMaxPatternNumber = 0
    /\ sampleID = 0
    /\ songOffset = 0
    /\ nextSong = 0
    /\ patternCount = 0
    /\ channelCount = 0
    /\ startRelativeToSongOffset = Unbound
    /\ patternID = 0

IdleFile ==
    /\ mus = << >>
    /\ pos = 0
    /\ songTableOffset = 0
    /\ sampleTableOffset = 0
    /\ songCount = 0
    /\ song = 0

IdleRip ==
    /\ files = << >>
    /\ fileIdx = 0
    /\ rpc = "idle"
    /\ saved = << >>
    /\ IdleFile
    /\ IdleSong

IdleDPAK ==
    /\ rom = << >>
    /\ dpakpc = "idle"
    /\ DPAKCheck = [found |-> FALSE, offset |-> -1]
    /\ extracted = NotExtracted
    /\ MUSC = [found |-> FALSE, bin |-> << >>]

(***************************************************************************)
(* Inputs of the sample-data specification.                                *)
(***************************************************************************)
MaxPcmLen == 3

\* PCM values: the int8 and int16 extremes, small values, and 130 (an 8-bit
\* writer is also handed values above 127 by callers that do not clamp).
PcmValues == {-32768, -128, -2, 0, 5, 127, 130, 32767}

SeqsUpTo(S, n) == UNION {[1..k -> S] : k \in 0..n}

InitPack ==
    /\ sample \in [pcm : SeqsUpTo(PcmValues, MaxPcmLen), is_16bit : BOOLEAN]
    /\ packed = NotPacked
    /\ pkpc = "call"
    /\ IdleWriter
    /\ IdleDPAK
    /\ IdleRip

\* out = self._pack_sample_data(s)
PackCall ==
    /\ pkpc = "call"
    /\ packed' = PackSampleData(sample)
    /\ pkpc' = "returned"
    /\ UNCHANGED <<sample, writerVars, dpakVars, ripVars>>

NextPack == PackCall

SpecPack == InitPack /\ [][NextPack]_vars

\* the signed values the written bytes stand for
RECURSIVE Decode8(_)
Decode8(bytes) ==
    IF bytes = << >> THEN << >>
    ELSE << UnpackInt8(Head(bytes)) >> \o Decode8(Tail(bytes))

RECURSIVE Decode16(_)
Decode16(bytes) ==
    IF Len(bytes) < 2 THEN << >>
    ELSE << UnpackInt16(bytes[1], bytes[2]) >> \o Decode16(Tail(Tail(bytes)))

\* running sums of a sequence of deltas, starting from 0
RECURSIVE RunningSum(_, _)
RunningSum(deltas, acc) ==
    IF deltas = << >> THEN << >>
    ELSE << acc + Head(deltas) >> \o RunningSum(Tail(deltas), acc + Head(deltas))

(***************************************************************************)
(* Claims about _pack_sample_data.                                         *)
(***************************************************************************)
Written8 == Decode8(packed.out)
Written16 == Decode16(packed.out)

\* prev before iteration i (1-based): 0, then the value left by iteration i-1
PrevBefore(i) == IF i = 1 THEN 0 ELSE packed.prevs[i - 1]

Returned8 == pkpc = "returned" /\ ~sample.is_16bit
Returned16 == pkpc = "returned" /\ sample.is_16bit

\* the rule of C1: every written value is the difference to the reference,
\* clamped to -128..127, and the reference advances by the written value
Delta8Rule ==
    /\ ~packed.raised
    /\ Len(Written8) = Len(sample.pcm)
    /\ Len(packed.prevs) = Len(sample.pcm)
    /\ \A i \in 1..Len(sample.pcm) :
          LET d == sample.pcm[i] - PrevBefore(i)
          IN  /\ Written8[i] = (IF d < -128 THEN -128 ELSE IF d > 127 THEN 127 ELSE d)
              /\ packed.prevs[i] = PrevBefore(i) + Written8[i]

\* C1 as stated: the 8-bit rule, and for [5, 130, 5] the deltas [5, 127, -122]
\* with references [5, 132, 10].
C1_Original ==
    Returned8 =>
        /\ Delta8Rule
        /\ sample.pcm = <<5, 130, 5>> =>
              /\ Written8 = <<5, 127, -122>>
              /\ packed.prevs = <<5, 132, 10>>

\* C1 amended: the 8-bit rule holds for every input; for [5, 130, 5] no delta
\* leaves -128..127, so the deltas are [5, 125, -125] and the references
\* [5, 130, 5].
C1_Delta8Clamped ==
    Returned8 =>
        /\ Delta8Rule
        /\ sample.pcm = <<5, 130, 5>> =>
              /\ Written8 = <<5, 125, -125>>
              /\ packed.prevs = <<5, 130, 5>>

C1_Witness == Returned8 /\ sample.pcm = <<5, 130, 5>> /\ packed.out = <<5, 125, 131>>

\* C10: for every sequence of int16 values the 16-bit call succeeds, writes one
\* int16 delta per value, the running sum of the deltas is the input, and the
\* reference of each delta is the previous input value.
C10_Lossless16 ==
    (Returned16 /\ \A i \in 1..Len(sample.pcm) : FitsInt16(sample.pcm[i])) =>
        /\ ~packed.raised
        /\ Len(packed.out) = 2 * Len(sample.pcm)
        /\ RunningSum(Written16, 0) = sample.pcm
        /\ packed.prevs = sample.pcm

\* what does hold of the 16-bit call: it raises exactly when some difference of
\* neighbouring values (the first against 0) leaves the int16 range, and is
\* lossless otherwise
Lossless16WhenDeltasFit ==
    Returned16 =>
        LET fits == \A i \in 1..Len(sample.pcm) :
                        FitsInt16(sample.pcm[i] - (IF i = 1 THEN 0 ELSE sample.pcm[i - 1]))
        IN  /\ packed.raised <=> ~fits
            /\ fits => /\ RunningSum(Written16, 0) = sample.pcm
                       /\ packed.prevs = sample.pcm

(***************************************************************************)
(* The writer's API called in any order with arguments on both sides of    *)
(* each limit.                                                             *)
(***************************************************************************)
MaxWriterPatterns == 1
MaxWriterInstruments == 1

\* the writers under test: no channel, one channel, two channels
WriterChannelInputs == {0, 1, 2}

OrderLengthInputs == {0, 2, MaxOrderLength - 1, MaxOrderLength, MaxOrderLength + 1}
OrderInputs == {[i \in 1..n |-> (i * 7) % 256] : n \in OrderLengthInputs}

\* patterns for a writer of n channels: as wide as the writer with a row count
\* on both sides of each limit, one cell too wide, and one with only its last
\* row one cell too wide
RowCountInputs == {0, 1, MaxPatternRows, MaxPatternRows + 1}
PatternInputs(n) ==
    {XMPattern(r, n) : r \in RowCountInputs}
    \cup {XMPattern(1, n + 1)}
    \cup {[XMPattern(2, n) EXCEPT !.rows[2] = Append(@, XMNote(0, 0, 0, 0, 0))]}

SampleCountInputs == {0, MaxInstrumentSamples, MaxInstrumentSamples + 1}
InstrumentInputs ==
    {[XMInstrument(0) EXCEPT !.samples = [i \in 1..n |-> DefaultSample]] :
        n \in SampleCountInputs}

InitWriter ==
    /\ xm \in {ExtendedModuleWriter(c) : c \in WriterChannelInputs}
    /\ call = NoCall
    /\ IdlePack
    /\ IdleDPAK
    /\ IdleRip

CallSetOrder ==
    \E order \in OrderInputs :
        LET r == SetOrder(xm, order)
        IN  /\ xm' = r.xm
            /\ call' = [op |-> "set_order", arg |-> order, raised |-> r.raised]
            /\ UNCHANGED <<packVars, dpakVars, ripVars>>

CallAddPattern ==
    /\ Len(xm.patterns) < MaxWriterPatterns
    /\ \E pattern \in PatternInputs(xm.num_channels) :
        LET r == AddPattern(xm, pattern)
        IN  /\ xm' = r.xm
            /\ call' = [op |-> "add_pattern", arg |-> pattern, raised |-> r.raised]
            /\ UNCHANGED <<packVars, dpakVars, ripVars>>

CallAddInstrument ==
    /\ Len(xm.instruments) < MaxWriterInstruments
    /\ \E inst \in InstrumentInputs :
        LET r == AddInstrument(xm, inst)
        IN  /\ xm' = r.xm
            /\ call' = [op |-> "add_instrument", arg |-> inst, raised |-> r.raised]
            /\ UNCHANGED <<packVars, dpakVars, ripVars>>

NextWriter == CallSetOrder \/ CallAddPattern \/ CallAddInstrument

SpecWriter == InitWriter /\ [][NextWriter]_vars

(***************************************************************************)
(* Claims about the writer's validation.                                   *)
(***************************************************************************)
WriterUntouched ==
    /\ xm'.order = xm.order
    /\ xm'.song_length = xm.song_length
    /\ xm'.patterns = xm.patterns
    /\ xm'.instruments = xm.instruments

C5_SetOrderStep ==
    LET order == call'.arg
    IN  IF Len(order) > 256
        THEN call'.raised /\ WriterUntouched
        ELSE /\ ~call'.raised
             /\ xm'.song_length = Len(order)
             /\ Len(xm'.order) = 256
             /\ \A i \in 1..256 : xm'.order[i] = (IF i <= Len(order) THEN order[i] ELSE 0)
             /\ xm'.patterns = xm.patterns
             /\ xm'.instruments = xm.instruments

C5_AddPatternStep ==
    LET pattern == call'.arg
        bad == \/ pattern.num_rows < 1
               \/ pattern.num_rows > 256
               \/ \E r \in 1..Len(pattern.rows) : Len(pattern.rows[r]) # xm.num_channels
    IN  IF bad
        THEN call'.raised /\ WriterUntouched
        ELSE /\ ~call'.raised
             /\ xm'.patterns = Append(xm.patterns, pattern)
             /\ xm'.order = xm.order
             /\ xm'.song_length = xm.song_length
             /\ xm'.instruments = xm.instruments

C5_AddInstrumentStep ==
    LET inst == call'.arg
    IN  IF Len(inst.samples) > 128
        THEN call'.raised /\ WriterUntouched
        ELSE /\ ~call'.raised
             /\ xm'.instruments = Append(xm.instruments, inst)
             /\ xm'.order = xm.order
             /\ xm'.song_length = xm.song_length
             /\ xm'.patterns = xm.patterns

\* C5: set_order raises for more than 256 entries, add_pattern for a row count
\* outside 1..256 or a row that has not num_channels cells, add_instrument for
\* more than 128 samples; a raising call leaves order, song_length, patterns
\* and instruments as they were, any other call sets or appends exactly its
\* argument.
C5_WriterValidation ==
    [][ /\ call'.op = "set_order" => C5_SetOrderStep
        /\ call'.op = "add_pattern" => C5_AddPatternStep
        /\ call'.op = "add_instrument" => C5_AddInstrumentStep
        /\ xm'.num_channels = xm.num_channels ]_vars

\* a ragged pattern was refused after an order of 256 entries was accepted and
\* a pattern was added
C5_Witness ==
    /\ call.op = "add_instrument" /\ call.raised
    /\ xm.song_length = 256
    /\ Len(xm.patterns) = 1
    /\ xm.patterns[1].num_rows = 256

(***************************************************************************)
(* DPAKMUSCExtract on ROM images: a prefix, the DPAK header, a directory of *)
(* up to MaxEntries entries, 8 bytes of payload area, cut short by 0..14    *)
(* bytes.  Payloads lie in the payload area or over the header, in any      *)
(* order, and may reach past the end of the file.                           *)
(***************************************************************************)
MaxEntries == 2

TorusField == <<84, 111, 114, 117, 115, 0, 0, 0, 0, 0>>
PayloadArea == MUSCSignature \o <<1, 2, 3, 4>>

\* where the directory of n entries ends, relative to the DPAK signature
DirectoryEnd(n) == 16 + 16 * n

EntryInputs(n) ==
    [chunkType : {17, 513},
     dataOffsetRelative : {0, DirectoryEnd(n), DirectoryEnd(n) + 6},
     dataSize : {2, 4}]

EntryBytes(e) ==
    PackUInt32(e.chunkType) \o PackUInt32(e.dataOffsetRelative)
        \o PackUInt32(e.dataSize) \o <<0, 0, 0, 0>>

RECURSIVE DirectoryBytes(_)
DirectoryBytes(es) ==
    IF es = << >> THEN << >> ELSE EntryBytes(Head(es)) \o DirectoryBytes(Tail(es))

RomImage(prefix, es, cut) ==
    LET full == prefix \o DPAKSignature \o <<Len(es) % 256, Len(es) \div 256>>
                   \o TorusField \o DirectoryBytes(es) \o PayloadArea
    IN  SubSeq(full, 1, Len(full) - cut)

RomInputs ==
    {RomImage(prefix, es, cut) :
        prefix \in {<< >>, <<9, 68>>},
        es \in UNION {[1..n -> EntryInputs(n)] : n \in 0..MaxEntries},
        cut \in {0, 3, 10, 14}}
    \cup {<<9, 68, 80>>}

InitDPAK ==
    /\ rom \in RomInputs
    /\ dpakpc = "check"
    /\ DPAKCheck = [found |-> FALSE, offset |-> -1]
    /\ extracted = NotExtracted
    /\ MUSC = [found |-> FALSE, bin |-> << >>]
    /\ IdlePack
    /\ IdleWriter
    /\ IdleRip

\* HelperFunctions.py 77-79, 91-93
CheckForDPAK ==
    /\ dpakpc = "check"
    /\ DPAKCheck' = checkForByteString(rom, DPAKSignature)
    /\ dpakpc' = IF DPAKCheck'.found THEN "extract" ELSE "returned"
    /\ UNCHANGED <<rom, extracted, MUSC, packVars, writerVars, ripVars>>

\* HelperFunctions.py 80
ExtractChunks ==
    /\ dpakpc = "extract"
    /\ extracted' = DPAKExtract(rom, DPAKCheck.offset)
    /\ dpakpc' = IF extracted'.raised THEN "raised" ELSE "select"
    /\ UNCHANGED <<rom, DPAKCheck, MUSC, packVars, writerVars, ripVars>>

\* HelperFunctions.py 81-89
SelectMusicChunk ==
    /\ dpakpc = "select"
    /\ MUSC' = SelectMUSC(extracted.files)
    /\ dpakpc' = "returned"
    /\ UNCHANGED <<rom, DPAKCheck, extracted, packVars, writerVars, ripVars>>

NextDPAK == CheckForDPAK \/ ExtractChunks \/ SelectMusicChunk

SpecDPAK == InitDPAK /\ [][NextDPAK]_vars

(***************************************************************************)
(* Claims about DPAKExtract.  The directory is read off the file itself:   *)
(* field k (0 chunkType, 1 dataOffsetRelative, 2 dataSize) of entry j.     *)
(***************************************************************************)
DeclaredEntries == LittleEndian(ReadBytes(rom, DPAKCheck.offset + 4, 2))
DirectoryField(j, k) ==
    LittleEndian(ReadBytes(rom, DPAKCheck.offset + 16 + 16 * (j - 1) + 4 * k, 4))

ExtractionReturned == dpakpc \in {"select", "returned"} /\ DPAKCheck.found

\* C7: DPAKExtract never returns a chunk shorter than the dataSize its
\* directory entry declares (a short payload read ends the extraction in an
\* error instead).
C7_TruncatedChunkIsFatal ==
    ExtractionReturned =>
        \A j \in 1..Len(extracted.files) :
            Len(extracted.files[j]) = DirectoryField(j, 2)

\* C8: a returning DPAKExtract gives one chunk and one tag per declared
\* entry, the j-th being the bytes at offset + dataOffsetRelative and the
\* chunkType of the j-th 16-byte directory entry, each entry read directly
\* after the previous one; it raises only when the file ends inside the
\* directory.
C8_ExtractionOrder ==
    /\ ExtractionReturned =>
          /\ Len(extracted.files) = DeclaredEntries
          /\ Len(extracted.chunks) = DeclaredEntries
          /\ \A j \in 1..DeclaredEntries :
                /\ extracted.reads[j] = DPAKCheck.offset + 16 + 16 * (j - 1)
                /\ extracted.chunks[j] = DirectoryField(j, 0)
                /\ extracted.files[j] =
                      ReadBytes(rom, DPAKCheck.offset + DirectoryField(j, 1),
                                DirectoryField(j, 2))
    /\ dpakpc = "raised" =>
          \/ Len(rom) < DPAKCheck.offset + 6
          \/ Len(rom) < DPAKCheck.offset + 16 + 16 * (DeclaredEntries - 1) + 12

\* two chunks returned whose payloads lie in the file in the opposite order
\* of their directory entries, the second over the container's own header
C8_Witness ==
    /\ dpakpc = "returned"
    /\ Len(extracted.files) = 2
    /\ DirectoryField(2, 1) < DirectoryField(1, 1)
    /\ extracted.chunks = <<513, 17>>
    /\ extracted.files[1] = MUSCSignature
    /\ extracted.files[2] = <<68, 80>>
    /\ MUSC.found

(***************************************************************************)
(* TorusRipper.py: the script, one action per loop iteration.  An uncaught *)
(* exception ends the script (rpc = "crashed"); nothing runs after it.     *)
(***************************************************************************)
Crash ==
    /\ rpc' = "crashed"
    /\ UNCHANGED <<files, fileIdx, pos, song, saved, fileVars, songVars, xm>>

\* lines 15-32 and 156-157: the next selected file, up to the song loop
RipFile ==
    /\ rpc = "file"
    /\ UNCHANGED <<packVars, dpakVars, call>>
    /\ IF fileIdx > Len(files)
       THEN /\ rpc' = "done"
            /\ UNCHANGED <<files, fileIdx, pos, song, saved, fileVars, songVars, xm>>
       ELSE
       LET r == DPAKMUSCExtract(files[fileIdx])
           b1 == ReadBytes(r.bin, 4, 4)
           b2 == ReadBytes(r.bin, 4 + Len(b1), 4)
           b3 == ReadBytes(r.bin, LittleEndian(b1), 4)
       IN  IF r.raised THEN Crash
           ELSE IF ~r.found
           THEN /\ fileIdx' = fileIdx + 1
                /\ UNCHANGED <<files, rpc, pos, song, saved, fileVars, songVars, xm>>
           ELSE IF Len(b1) # 4 \/ Len(b2) # 4 \/ Len(b3) # 4 THEN Crash
           ELSE /\ mus' = r.bin
                /\ songTableOffset' = LittleEndian(b1)
                /\ sampleTableOffset' = LittleEndian(b2)
                /\ songCount' = LittleEndian(b3)
                /\ pos' = LittleEndian(b1) + 4
                /\ song' = 0
                /\ rpc' = "song"
                /\ UNCHANGED <<files, fileIdx, saved, songVars, xm>>

\* lines 33-65: the next song, up to the pattern loop
RipSong ==
    /\ rpc = "song"
    /\ UNCHANGED <<packVars, dpakVars, call>>
    /\ IF song >= songCount
       THEN /\ fileIdx' = fileIdx + 1
            /\ rpc' = "file"
            /\ UNCHANGED <<files, pos, song, saved, fileVars, songVars, xm>>
       ELSE
       LET pointer == ReadBytes(mus, pos, 4)
           offset == LittleEndian(pointer) + songTableOffset
           version == ReadBytes(mus, offset, 4)
           header == ReadBytes(mus, offset + Len(version), 4)
           tablePos == offset + Len(version) + Len(header)
           lengthByte == ReadBytes(mus, tablePos, 1)
           patternOrderTableLength == (lengthByte[1] - 8) \div 2
           st == OrderLoop(mus, tablePos, patternOrderTableLength, header[1],
                           [orderTable |-> << >>, currentMaxPatternNumber |-> 0,
                            startRelativeToSongOffset |-> startRelativeToSongOffset,
                            raised |-> FALSE, cur |-> tablePos])
       IN  IF Len(pointer) # 4 \/ Len(header) # 4 \/ Len(lengthByte) = 0 THEN Crash
           ELSE IF st.raised \/ st.startRelativeToSongOffset = Unbound THEN Crash
           ELSE /\ orderTable' = st.orderTable
                /\ usedSamples' = {}
                /\ currentMaxPatternNumber' = st.currentMaxPatternNumber
                /\ sampleID' = 0
                /\ songOffset' = offset
                /\ nextSong' = pos + 4
                /\ patternCount' = header[1]
                /\ channelCount' = header[3]
                /\ startRelativeToSongOffset' = st.startRelativeToSongOffset
                /\ patternID' = 0
                /\ xm' = ExtendedModuleWriter(header[3])
                /\ pos' = offset + st.startRelativeToSongOffset
                /\ rpc' = "pattern"
                /\ UNCHANGED <<files, fileIdx, song, saved, fileVars>>

\* a pattern loop that reads one pattern less
PatternLoopContinues_OneLess(id, top) == id < top

\* line 67: for patternID in range(currentMaxPatternNumber+1)
PatternLoopContinues(id, top) == id <= top

\* lines 67-85: one pattern
RipPattern ==
    /\ rpc = "pattern"
    /\ PatternLoopContinues(patternID, currentMaxPatternNumber)
    /\ UNCHANGED <<packVars, dpakVars, call>>
    /\ LET cells == rowCount * channelCount
           r == AddPattern(xm, ReadPattern(mus, pos, channelCount))
       IN  IF PatternReadFails(mus, pos, cells) THEN Crash
           ELSE IF r.raised THEN Crash
           ELSE /\ xm' = r.xm
                /\ usedSamples' = usedSamples \cup CellSamples(mus, pos, cells)
                /\ pos' = pos + 4 * cells
                /\ patternID' = patternID + 1
                /\ UNCHANGED <<files, fileIdx, rpc, song, saved, fileVars, orderTable,
                               currentMaxPatternNumber, sampleID, songOffset, nextSong,
                               patternCount, channelCount, startRelativeToSongOffset>>

\* lines 87-91: after the last pattern, up to the sample loop
RipSetOrder ==
    /\ rpc = "pattern"
    /\ ~PatternLoopContinues(patternID, currentMaxPatternNumber)
    /\ UNCHANGED <<packVars, dpakVars, call>>
    /\ LET r == SetOrder(xm, orderTable)
           unknownVariable == ReadBytes(mus, sampleTableOffset, 4)
       IN  IF r.raised \/ Len(unknownVariable) # 4 THEN Crash
           ELSE /\ xm' = r.xm
                /\ pos' = sampleTableOffset + 4
                /\ rpc' = "sample"
                /\ UNCHANGED <<files, fileIdx, song, saved, fileVars, songVars>>

\* lines 93-149: one turn of the sample loop; any exception inside it is
\* caught and ends the loop
RipSample ==
    /\ rpc = "sample"
    /\ UNCHANGED <<packVars, dpakVars, call>>
    /\ LET unused == ReadBytes(mus, pos, 1)
           p1 == pos + Len(unused)
           b3 == ReadBytes(mus, p1, 3)
           p2 == p1 + Len(b3)
           bLength == ReadBytes(mus, p2, 2)
           p3 == p2 + Len(bLength)
           bPitch == ReadBytes(mus, p3, 1)
           p4 == p3 + Len(bPitch)
           bVolume == ReadBytes(mus, p4, 1)
           p5 == p4 + Len(bVolume)
           bLoopStart == ReadBytes(mus, p5, 2)
           p6 == p5 + Len(bLoopStart)
           bLoopLength == ReadBytes(mus, p6, 2)
           nextSample == p6 + Len(bLoopLength)
           failedAt == IF Len(bLength) # 2 THEN p3
                       ELSE IF Len(bPitch) = 0 THEN p4
                       ELSE IF Len(bVolume) = 0 THEN p5
                       ELSE IF Len(bLoopStart) # 2 THEN p6
                       ELSE IF Len(bLoopLength) # 2 THEN nextSample
                       ELSE -1
           rawOffset == LittleEndian(b3) + p2 - SampleOffsetBias
           sampleOffset == IF rawOffset < 0 THEN 0 ELSE rawOffset
           sampleLength == LittleEndian(bLength) * 2
           sampleLoopLength == LittleEndian(bLoopLength) * 2
           xmsample ==
               IF SampleIsUsed(sampleID, usedSamples, sampleLength)
               THEN XMSample("SAMPLE", SignedPCM(ReadBytes(mus, sampleOffset, sampleLength)),
                             FALSE, bVolume[1], bPitch[1], 128, 24,
                             IF sampleLoopLength > 1 THEN 1 ELSE 0,
                             LittleEndian(bLoopStart) * 2, sampleLoopLength)
               ELSE XMSample("EMPTY", [i \in 1..SilenceLength |-> 0], FALSE, 0, 0, 128, 0, 0, 0, 0)
           r == AddInstrument(xm, [XMInstrument(sampleID) EXCEPT !.samples = Append(@, xmsample)])
       IN  IF failedAt >= 0
           THEN /\ pos' = failedAt
                /\ rpc' = "save"
                /\ UNCHANGED <<files, fileIdx, song, saved, fileVars, songVars, xm>>
           ELSE IF r.raised
           THEN /\ pos' = nextSample
                /\ rpc' = "save"
                /\ UNCHANGED <<files, fileIdx, song, saved, fileVars, songVars, xm>>
           ELSE /\ xm' = r.xm
                /\ pos' = nextSample
                /\ sampleID' = sampleID + 1
                /\ rpc' = IF SampleLimitReached(sampleID + 1) THEN "save" ELSE "sample"
                /\ UNCHANGED <<files, fileIdx, song, saved, fileVars, orderTable, usedSamples,
                               currentMaxPatternNumber, songOffset, nextSong, patternCount,
                               channelCount, startRelativeToSongOffset, patternID>>

\* a song loop that leaves the cursor where the sample loop ended
CursorAfterSong_NotRestored(next, cur) == cur

\* line 153: mus.seek(nextSong)
CursorAfterSong(next, cur) == next

\* lines 151-153: xm.save(...) and the seek back to the song table
RipSave ==
    /\ rpc = "save"
    /\ UNCHANGED <<packVars, dpakVars, call>>
    /\ LET r == Save(xm)
       IN  /\ saved' = Append(saved, [file |-> fileIdx, song |-> song, module |-> xm,
                                      complete |-> ~r.raised, header |-> r.header,
                                      patterns |-> r.patterns, instruments |-> r.instruments])
           /\ IF r.raised
              THEN /\ rpc' = "crashed"
                   /\ UNCHANGED <<files, fileIdx, pos, song, fileVars, songVars, xm>>
              ELSE /\ pos' = CursorAfterSong(nextSong, pos)
                   /\ song' = song + 1
                   /\ rpc' = "song"
                   /\ UNCHANGED <<files, fileIdx, fileVars, songVars, xm>>

NextRip == RipFile \/ RipSong \/ RipPattern \/ RipSetOrder \/ RipSample \/ RipSave

(***************************************************************************)
(* Music chunks for the script.  Layout: "MUSC", songTableOffset (12),     *)
(* sampleTableOffset; the song table (count, one pointer per song); the    *)
(* song blocks, each a version tag, {patternCount, 0, channelCount, 0},    *)
(* the order entries {8 + 2 * entries, 8 * index + low bits} and           *)
(* `blocks` pattern blocks; a PCM area; the sample table (one u32, the     *)
(* descriptors, `tail` zero bytes); the whole cut short by `cut` bytes.    *)
(***************************************************************************)
UInt16Bytes(v) == <<v % 256, v \div 256>>
UInt24Bytes(v) == <<v % 256, (v \div 256) % 256, (v \div 65536) % 256>>

RECURSIVE Flatten(_)
Flatten(parts) == IF parts = << >> THEN << >> ELSE Head(parts) \o Flatten(Tail(parts))

RECURSIVE TotalLen(_)
TotalLen(parts) == IF parts = << >> THEN 0 ELSE Len(Head(parts)) + TotalLen(Tail(parts))

VersionTag == <<1, 0, 0, 0>>
PcmArea == <<250, 3, 128, 127, 0, 1>>

OrderEntryBytes(order) ==
    Flatten([k \in 1..Len(order) |-> <<8 + 2 * Len(order), 8 * order[k] + ((3 * k) % 8)>>])

\* one pattern block: the first cell {effect 0x3A, sample a, note 49, 7}, the
\* last cell {effect 0x10, sample b, note 0, 9}, every other cell zero
PatternBlockByte(i, n, a, b) ==
    CASE i = 1 -> 58 [] i = 2 -> a [] i = 3 -> 49 [] i = 4 -> 7
      [] i = n - 3 -> 16 [] i = n - 2 -> b [] i = n -> 9 [] OTHER -> 0

PatternArea(sg) ==
    LET n == rowCount * sg.channelCount * 4
    IN  [i \in 1..(sg.blocks * n) |-> PatternBlockByte(((i - 1) % n) + 1, n, sg.cellA, sg.cellB)]

\* a song without order entries: the byte the script reads as the length of
\* the order table is the first byte of its pattern data, 8 (no entries)
EmptyOrderByte == 8

SongBlock(sg) ==
    VersionTag \o <<sg.patternCount, 0, sg.channelCount, 0>>
        \o (IF sg.order = << >> THEN <<EmptyOrderByte>> \o Tail(PatternArea(sg))
            ELSE OrderEntryBytes(sg.order) \o PatternArea(sg))

\* the descriptor stored at position at: its PCM lies in the PCM area
\* (target "pcm"), or its 24-bit field is 0, which resolves below 0
DescriptorBytes(d, at, pcmStart) ==
    <<0>> \o UInt24Bytes(IF d.target = "pcm" THEN SampleOffsetBias - (at + 4 - pcmStart) ELSE 0)
          \o UInt16Bytes(d.length) \o <<d.pitch, d.volume>>
          \o UInt16Bytes(d.loopStart) \o UInt16Bytes(d.loopLength)

MusicChunk(songs, descs, tail, cut) ==
    LET n == Len(songs)
        blocks == [i \in 1..n |-> SongBlock(songs[i])]
        start(i) == 16 + 4 * n + TotalLen(SubSeq(blocks, 1, i - 1))
        pcmStart == 16 + 4 * n + TotalLen(blocks)
        tableStart == pcmStart + Len(PcmArea)
        full == MUSCSignature \o PackUInt32(12) \o PackUInt32(tableStart)
                  \o PackUInt32(n) \o Flatten([i \in 1..n |-> PackUInt32(start(i) - 12)])
                  \o Flatten(blocks) \o PcmArea
                  \o PackUInt32(Len(descs))
                  \o Flatten([i \in 1..Len(descs) |->
                                DescriptorBytes(descs[i], tableStart + 4 + 12 * (i - 1), pcmStart)])
                  \o [i \in 1..tail |-> 0]
    IN  SubSeq(full, 1, Len(full) - cut)

\* a ROM whose DPAK holds the chunk as its only entry
WrapInDPAK(chunk) ==
    DPAKSignature \o <<1, 0>> \o TorusField
        \o EntryBytes([chunkType |-> 1, dataOffsetRelative |-> 32, dataSize |-> Len(chunk)])
        \o chunk

SongInput(count, channels, order, blocks, a, b) ==
    [patternCount |-> count, channelCount |-> channels, order |-> order,
     blocks |-> blocks, cellA |-> a, cellB |-> b]

DescriptorInput(target, length, volume) ==
    [target |-> target, length |-> length, pitch |-> 3, volume |-> volume,
     loopStart |-> 1, loopLength |-> length]

\* the number of pattern blocks the script reads for an order: one more than
\* the largest index up to and including the first one above patternCount
RECURSIVE BlocksRead(_, _, _)
BlocksRead(order, count, top) ==
    IF order = << >> THEN top + 1
    ELSE IF Head(order) > count THEN Max(top, Head(order)) + 1
    ELSE BlocksRead(Tail(order), count, Max(top, Head(order)))

(***************************************************************************)
(* Inputs of the script specification: lists of selected files.            *)
(***************************************************************************)
MaxOrderEntries == 3
MaxDescriptors == 2
MaxFiles == 2

\* the first two descriptors carry real PCM; the pair is used by every song
\* whose cells name sampleIndex 1 and 2
PlainDescriptors == <<DescriptorInput("pcm", 2, 64), DescriptorInput("pcm", 1, 10)>>

\* one song, every order of 1..MaxOrderEntries indices, with as many pattern
\* blocks in the file as the script reads
OrderIndexInputs == {0, 1, 2, 5}
PatternCountInputs == {0, 2, 3}
OrderFiles ==
    {WrapInDPAK(MusicChunk(<<SongInput(count, 1, order, BlocksRead(order, count, 0), 1, 2)>>,
                           PlainDescriptors, 0, 0)) :
        count \in PatternCountInputs,
        order \in SeqsUpTo(OrderIndexInputs, MaxOrderEntries) \ {<< >>}}

\* one song, every sample table of up to MaxDescriptors descriptors: PCM in
\* the PCM area or at a negative offset, length 0, short or longer than the
\* file, volume below or above 127; then 0, 5 or 12 zero bytes
DescriptorInputs ==
    {DescriptorInput("pcm", 2, 64), DescriptorInput("neg", 3, 200),
     DescriptorInput("pcm", 2000, 10), DescriptorInput("pcm", 0, 64),
     DescriptorInput("neg", 0, 0)}
TailInputs == {0, 5, 12}
CellInputs == {<<1, 2>>, <<2, 2>>}
SampleFiles ==
    {WrapInDPAK(MusicChunk(<<SongInput(1, 1, <<0, 1>>, 2, cells[1], cells[2])>>, descs, tail, 0)) :
        cells \in CellInputs, descs \in SeqsUpTo(DescriptorInputs, MaxDescriptors),
        tail \in TailInputs}

\* one song whose sample table goes on for one descriptor less than, as many
\* as, and one more than the limit of the sample loop
LongTableFiles ==
    {WrapInDPAK(MusicChunk(<<SongInput(1, 1, <<0>>, 1, 1, 2)>>, << >>, 12 * n, 0)) :
        n \in {SampleIDLimit - 1, SampleIDLimit, SampleIDLimit + 1}}

\* files of a batch: no container, a container without music, two good songs,
\* a first song whose pattern cells run past the end of the file, a first
\* song whose second sample has volume 200, a container cut in its directory
GoodFile ==
    WrapInDPAK(MusicChunk(<<SongInput(1, 1, <<0, 1>>, 2, 1, 2), SongInput(0, 0, <<0>>, 1, 0, 0)>>,
                          PlainDescriptors, 5, 0))
ShortPatternFile ==
    WrapInDPAK(MusicChunk(<<SongInput(0, 255, <<0>>, 0, 0, 0), SongInput(1, 1, <<0>>, 1, 1, 1)>>,
                          PlainDescriptors, 5, 0))
LoudSampleFile ==
    WrapInDPAK(MusicChunk(<<SongInput(1, 1, <<0>>, 1, 1, 2), SongInput(1, 1, <<0>>, 1, 1, 1)>>,
                          <<DescriptorInput("pcm", 2, 64), DescriptorInput("neg", 3, 200)>>, 5, 0))
CutDirectoryFile == SubSeq(GoodFile, 1, 20)
NoContainerFile == <<1, 2, 3, 4>>
NoMusicFile ==
    DPAKSignature \o <<1, 0>> \o TorusField
        \o EntryBytes([chunkType |-> 7, dataOffsetRelative |-> 32, dataSize |-> 2]) \o <<68, 80>>
BatchFileInputs ==
    {GoodFile, ShortPatternFile, LoudSampleFile, CutDirectoryFile, NoContainerFile, NoMusicFile}

\* patternCount 3 with the order indices 0, 1, 5, 2
ExampleOrderFile ==
    WrapInDPAK(MusicChunk(<<SongInput(3, 1, <<0, 1, 5, 2>>, 6, 1, 2)>>, PlainDescriptors, 0, 0))

\* a file whose first song has no order entries, alone, after a file that
\* ends with a one-entry song, and selected twice in one batch
EmptyOrderFile ==
    WrapInDPAK(MusicChunk(<<SongInput(1, 1, << >>, 1, 1, 2), SongInput(1, 1, <<0, 1>>, 2, 1, 2)>>,
                          PlainDescriptors, 5, 0))
OneEntryFile ==
    WrapInDPAK(MusicChunk(<<SongInput(1, 1, <<0>>, 1, 1, 2)>>, PlainDescriptors, 5, 0))
EmptyOrderLists ==
    {<<EmptyOrderFile>>, <<OneEntryFile, EmptyOrderFile>>,
     <<OneEntryFile, EmptyOrderFile, EmptyOrderFile>>}

\* the smallest channelCount whose patterns pack to more than 65535 bytes
\* (64 rows of 5 bytes per channel), in a file that holds the whole pattern
WideChannelCount == 205
WidePatternFile ==
    WrapInDPAK(MusicChunk(<<SongInput(0, WideChannelCount, <<0>>, 1, 1, 2)>>,
                          PlainDescriptors, 5, 0))

InitRip ==
    /\ files \in {<<f>> : f \in OrderFiles \cup SampleFiles \cup LongTableFiles
                                      \cup {ExampleOrderFile}}
                    \cup SeqsUpTo(BatchFileInputs, MaxFiles) \cup EmptyOrderLists
    /\ fileIdx = 1
    /\ rpc = "file"
    /\ saved = << >>
    /\ IdleFile
    /\ IdleSong
    /\ IdlePack
    /\ IdleDPAK
    /\ IdleWriter

SpecRip == InitRip /\ [][NextRip]_vars

\* the script on the wide file alone (its states are large)
InitWide ==
    /\ files = <<WidePatternFile>>
    /\ fileIdx = 1
    /\ rpc = "file"
    /\ saved = << >>
    /\ IdleFile
    /\ IdleSong
    /\ IdlePack
    /\ IdleDPAK
    /\ IdleWriter

SpecWide == InitWide /\ [][NextRip]_vars

(***************************************************************************)
(* What the bytes of the current song say, read straight from the file.    *)
(***************************************************************************)
\* the patterns and the order table of the current song are complete
SongParsed == rpc \in {"sample", "save"}

\* the order entries follow the version tag and the 4-byte song header
OrderTableAt == songOffset + Len(VersionTag) + 4

DeclaredOrderLength == (mus[OrderTableAt + 1] - 8) \div 2

\* patternIndexRaw / 8 of every entry the song declares
DecodedIndices ==
    [k \in 1..DeclaredOrderLength |-> mus[OrderTableAt + 2 * k] \div 8]

RECURSIVE LongestValidPrefix(_, _)
LongestValidPrefix(indices, count) ==
    IF indices = << >> \/ Head(indices) > count THEN << >>
    ELSE << Head(indices) >> \o LongestValidPrefix(Tail(indices), count)

ValidPrefix == LongestValidPrefix(SubSeq(DecodedIndices, 1, DeclaredOrderLength), patternCount)

\* the largest element of a set of naturals, 0 for the empty set
Largest(S) == IF S = {} THEN 0 ELSE CHOOSE m \in S : \A n \in S : n <= m

\* the order table the writer holds
WriterOrder == SubSeq(xm.order, 1, xm.song_length)

\* C2: once a song's order table has been handed to the writer, it is exactly
\* the longest prefix of the song's decoded pattern indices in which no index
\* exceeds patternCount: the first index above patternCount and every entry
\* after it are absent.
C2_OrderTablePrefix ==
    SongParsed =>
        /\ orderTable = ValidPrefix
        /\ xm.song_length = Len(ValidPrefix)
        /\ WriterOrder = ValidPrefix
        /\ \A i \in 1..Len(WriterOrder) : WriterOrder[i] <= patternCount

\* patternCount 3 with indices [0,1,5,2] has given the order table [0,1]
C2_Witness ==
    /\ rpc = "save"
    /\ patternCount = 3
    /\ SubSeq(DecodedIndices, 1, DeclaredOrderLength) = <<0, 1, 5, 2>>
    /\ WriterOrder = <<0, 1>>

\* C3: the number of pattern blocks parsed for a song is (the largest valid
\* index seen in its order entries) + 1; an entry rejected as out of range
\* does not raise it.
C3_PatternsParsed ==
    SongParsed =>
        Len(xm.patterns) = Largest({ValidPrefix[i] : i \in 1..Len(ValidPrefix)}) + 1

\* what the script does: the entry that ends the order table counts as well
PatternsParsedRule ==
    SongParsed =>
        LET indices == SubSeq(DecodedIndices, 1, DeclaredOrderLength)
            seen == SubSeq(indices, 1, Min(Len(ValidPrefix) + 1, Len(indices)))
        IN  Len(xm.patterns) = Largest({seen[i] : i \in 1..Len(seen)}) + 1

\* the sample loop of the current song is running or has ended
InSampleTable == rpc \in {"sample", "save"}

\* descriptor k (0-based) of the sample table: 12 bytes after a 4-byte word
DescriptorSize == 12
DescriptorAt(k) == sampleTableOffset + 4 + DescriptorSize * k
DescriptorLength(k) == 2 * LittleEndian(ReadBytes(mus, DescriptorAt(k) + 4, 2))
DescriptorOffset(k) ==
    Max(0, LittleEndian(ReadBytes(mus, DescriptorAt(k) + 1, 3)) + DescriptorAt(k) + 4
              - SampleOffsetBias)

\* the sampleIndex values of the cells of the song's patterns
SongSampleIndices ==
    {xm.patterns[p].rows[r][c].instrument :
        p \in 1..Len(xm.patterns), r \in 1..rowCount, c \in 1..channelCount}

\* the sample of the instrument added for descriptor k
AddedSample(k) == xm.instruments[k + 1].samples[1]

IsPlaceholder(s) ==
    s.kind = "EMPTY" /\ s.pcm = [i \in 1..SilenceLength |-> 0] /\ s.volume = 0

\* descriptor k gets the placeholder iff its length is zero or no cell of the
\* song names sampleIndex k + 1
PlaceholderRule(k) ==
    IsPlaceholder(AddedSample(k))
        <=> (DescriptorLength(k) = 0 \/ (k + 1) \notin SongSampleIndices)

\* the PCM values are the signed bytes found at the resolved offset
PcmFromOffset(k) ==
    \A i \in 1..Len(AddedSample(k).pcm) :
        /\ DescriptorOffset(k) + i <= Len(mus)
        /\ AddedSample(k).pcm[i] = UnpackInt8(mus[DescriptorOffset(k) + i])

\* after a descriptor the cursor is at the next one
CursorAtNextDescriptor ==
    rpc = "sample" => pos = DescriptorAt(Len(xm.instruments))

\* C4: the instrument of descriptor k holds the silent placeholder iff the
\* descriptor's length is zero or no cell of the song has sampleIndex k + 1;
\* otherwise it holds exactly `length` signed 8-bit values read from the
\* resolved offset; the cursor is then back at the next descriptor.
C4_SampleBinding ==
    InSampleTable =>
        /\ \A k \in 0..(Len(xm.instruments) - 1) :
              /\ PlaceholderRule(k)
              /\ ~IsPlaceholder(AddedSample(k)) =>
                    /\ Len(AddedSample(k).pcm) = DescriptorLength(k)
                    /\ PcmFromOffset(k)
        /\ CursorAtNextDescriptor

\* what the script does: the PCM is as long as the bytes the file still has
\* at the offset, at most `length`
SampleBindingRule ==
    InSampleTable =>
        /\ \A k \in 0..(Len(xm.instruments) - 1) :
              /\ PlaceholderRule(k)
              /\ ~IsPlaceholder(AddedSample(k)) =>
                    /\ Len(AddedSample(k).pcm)
                          = Min(DescriptorLength(k), Max(0, Len(mus) - DescriptorOffset(k)))
                    /\ PcmFromOffset(k)
        /\ CursorAtNextDescriptor

\* C6: a fatal condition of one song or file does not stop the outer loops:
\* the script never ends while a song of the current file or a selected
\* file is still to be processed.
C6_ErrorIsolation ==
    rpc = "crashed" => (fileIdx >= Len(files) /\ song + 1 >= songCount)

\* C9: the sample loop adds at most 256 instruments per song, a decode
\* failure ends it without being propagated, and the song is then saved.
C9_SampleTableTermination ==
    /\ Len(xm.instruments) <= SampleIDLimit
    /\ rpc = "sample" => sampleID < SampleIDLimit
    /\ \A i \in 1..Len(saved) : saved[i].complete

\* what the script does: at most 256 instruments, and every save is started
\* with the instruments the loop has added
SampleLoopBounded ==
    /\ Len(xm.instruments) <= SampleIDLimit
    /\ rpc = "sample" => sampleID < SampleIDLimit /\ sampleID = Len(xm.instruments)

\* every turn of the sample loop either adds one instrument or ends the loop
\* and goes on to save: the loop terminates, and no failure leaves it
SampleLoopStep ==
    [][rpc = "sample" =>
          \/ rpc' = "sample" /\ sampleID' = sampleID + 1
          \/ rpc' = "save"]_vars

\* C11: the module saved for song i of a music chunk depends only on the
\* chunk's bytes and on i: whenever the same file is processed twice, each of
\* its songs gives the same module, whatever was processed before it.
C11_SongIndependence ==
    \A i, j \in 1..Len(saved) :
        (files[saved[i].file] = files[saved[j].file] /\ saved[i].song = saved[j].song)
            => saved[i].module = saved[j].module

\* the part about the pattern start: the offset the patterns are read at is
\* the first byte of an order entry of the current song
PatternStartFromOwnEntries ==
    rpc \in {"pattern", "sample", "save"} =>
        \E k \in 1..DeclaredOrderLength :
            startRelativeToSongOffset = mus[OrderTableAt + 2 * k - 1]

\* the position of the pointer of song i in the song table: the table starts
\* with the 4-byte song count
PointerAt(i) == songTableOffset + 4 + 4 * i

\* the songs of the file being processed that have been saved, in the order
\* they were saved
RECURSIVE SavedSongs(_)
SavedSongs(entries) ==
    IF entries = << >> THEN << >>
    ELSE (IF Head(entries).file = fileIdx THEN << Head(entries).song >> ELSE << >>)
            \o SavedSongs(Tail(entries))

\* C12: the pointer of song i is read at songTableOffset + 4 + 4 i; once song
\* i is processed the cursor is back directly after its pointer, wherever the
\* pattern and sample reads left it; the songs are processed in table order,
\* none skipped and none twice.
C12_CursorProtocol ==
    /\ rpc = "song" =>
          /\ pos = PointerAt(song)
          /\ SavedSongs(saved) = [i \in 1..song |-> i - 1]
    /\ rpc \in {"pattern", "sample", "save"} =>
          /\ songOffset = LittleEndian(ReadBytes(mus, PointerAt(song), 4)) + songTableOffset
          /\ nextSong = PointerAt(song) + 4
          /\ SavedSongs(saved) = [i \in 1..song |-> i - 1]

\* both songs of a two-song file are saved, the cursor is after the second
\* pointer, and the sample reads had left it elsewhere
C12_Witness ==
    /\ rpc = "song"
    /\ song = 2
    /\ songCount = 2
    /\ SavedSongs(saved) = <<0, 1>>
    /\ pos = PointerAt(1) + 4
    /\ sampleID > 0

\* C13: when a song is saved, every entry of the order table given to
\* set_order is below the number of patterns added to the writer, also when
\* an entry equal to patternCount was accepted and when an out-of-range entry
\* ended the order table.
C13_OrderWithinPatterns ==
    /\ rpc = "save" =>
          \A i \in 1..Len(orderTable) : orderTable[i] < Len(xm.patterns)
    /\ \A n \in 1..Len(saved) : \A i \in 1..saved[n].module.song_length :
          saved[n].module.order[i] < Len(saved[n].module.patterns)

\* patternCount 2 with indices [2, 5]: 2 is accepted, 5 ends the table, and
\* the saved module has the order [2] and six patterns
C13_Witness ==
    /\ rpc = "song"
    /\ Len(saved) = 1
    /\ patternCount = 2
    /\ SubSeq(DecodedIndices, 1, DeclaredOrderLength) = <<2, 5>>
    /\ SubSeq(saved[1].module.order, 1, saved[1].module.song_length) = <<2>>
    /\ Len(saved[1].module.patterns) = 6

\* the samples of the instruments the writer holds
WriterSamples ==
    {xm.instruments[k].samples[1] : k \in 1..Len(xm.instruments)}

\* C14: every value of a parsed song fits the field the writer packs it in,
\* so save does not fail: each sample volume fits the signed 8-bit volume
\* field and the packed size of a pattern (64 rows x channelCount x 5 bytes)
\* fits the unsigned 16-bit packedDataSize field.
C14_FieldWidths ==
    rpc = "save" =>
        /\ \A s \in WriterSamples : FitsInt8(s.volume)
        /\ \A p \in 1..Len(xm.patterns) :
              FitsUInt16(xm.patterns[p].num_rows * channelCount * 5)
        /\ ~Save(xm).raised

\* the two parts, one at a time
VolumeFits == rpc = "save" => \A s \in WriterSamples : FitsInt8(s.volume)
PatternSizeFits ==
    rpc = "save" =>
        \A p \in 1..Len(xm.patterns) : FitsUInt16(xm.patterns[p].num_rows * channelCount * 5)

\* what the script does: save fails exactly when a sample volume is above 127
\* or the patterns are wider than 204 channels
SaveFailsRule ==
    rpc = "save" =>
        (Save(xm).raised <=>
            \/ \E s \in WriterSamples : s.volume > 127
            \/ (channelCount >= WideChannelCount /\ xm.patterns # << >>))

\* on the wide file (SpecWide): every volume fits, save raises after the
\* header, before the first pattern, and the script ends there
WideSaveFails ==
    /\ rpc # "done"
    /\ rpc = "save" =>
          /\ \A s \in WriterSamples : FitsInt8(s.volume)
          /\ Save(xm).raised /\ Save(xm).header /\ Save(xm).patterns = 0
    /\ rpc = "crashed" => (Len(saved) = 1 /\ ~saved[1].complete)

====
